---- MODULE Spec2Model ----
(***************************************************************************)
(* Model of rust/cjdns_sys/src/crypto/crypto_noise.rs: the session         *)
(* registry (CryptoNoise), the Session handle and its Drop, the index      *)
(* allocation loop of Session::new0, the Auth Table, the ingress           *)
(* dispatcher (handle_incoming / handle_init_msg) and the calls on a       *)
(* session (plaintext endpoint, tick, set_auth, ifaces), sequentially and  *)
(* from two threads.                                                       *)
(*                                                                         *)
(* Indexes are u32 in the source; here they are IndexBits wide, and the    *)
(* usize counter is one bit wider, so that the truncation `as u32` and     *)
(* the wrap of the index are both reachable.                               *)
(***************************************************************************)
EXTENDS Integers, Sequences, FiniteSets, TLC

\* ------------------------------------------------------------------ bounds
IndexBits == 2
\* registry specification: fetch_add calls, and Sessions built
MaxFetch == 6
MaxSessions == 3
\* dispatcher specification: fetch_add calls, and Sessions built
DispFetch == 2
DispSessions == 2

IndexSpace == 2 ^ IndexBits
UsizeSpace == 2 * IndexSpace
\* 0xffffffff, the id a Session is constructed with (new1)
UNASSIGNED == IndexSpace - 1
\* usize::MAX, the sentinel of the peer receive-index cache
USIZE_MAX == UsizeSpace - 1

\* worker threads: one for the sequential specification, two for the concurrent one
SeqThreads == {"t1"}
ConcThreads == {"t1", "t2"}

\* ------------------------------------------------------------------ Option<T>
None == <<>>
Some(x) == <<x>>
IsSome(o) == o /= <<>>
Unwrap(o) == o[1]

\* ------------------------------------------------------------------ keys, addresses
\* the keys Session::new is called with, and the static keys of handshakes
NewKeys == {"kZero", "kNotFc", "kA"}
PeerKeys == {"kNotFc", "kA", "kB"}

is_zero(k) == k = "kZero"

\* crypto_auth::ip6_from_key: address derived from the key; its first byte is
\* 0xfc (252) only for some keys
ip6_from_key(k) == IF k \in {"kA", "kB"} THEN <<252, k>> ELSE <<17, k>>

\* ------------------------------------------------------------------ Auth Table
Passwords == {"pw"}
Logins == {<<"alice">>}
RestrictIps == {None, Some(ip6_from_key("kA"))}

\* crypto_auth::hash_password(login, password, auth_type) -> (secret, challenge)
hash_password(login, password, auth_type) ==
    [secret |-> <<"secret", auth_type, login, password>>,
     challenge |-> <<"challenge", auth_type, login, password>>]

\* compute_auth(password, login) -> (Option<secret>, Option<Challenge2>)
compute_auth(password, login) ==
    IF IsSome(password)
    THEN LET lg == IF IsSome(login) THEN Unwrap(login) ELSE <<>>
             ty == IF IsSome(login) THEN "Two" ELSE "One"
             h == hash_password(lg, Unwrap(password), ty)
         IN [secret |-> Some(h.secret), challenge |-> Some(h.challenge)]
    ELSE [secret |-> None, challenge |-> None]

\* HashMap::insert: the new value replaces any value already under the key
Insert(map, k, v) == [x \in (DOMAIN map) \cup {k} |-> IF x = k THEN v ELSE map[x]]

\* HashMap::remove
Remove(map, k) == [x \in (DOMAIN map) \ {k} |-> map[x]]

Range(map) == {map[x] : x \in DOMAIN map}

AnonLogin(n) == <<"Anon #", n>>

\* variant: only the entry of the second block ("Auth type 2 login") is inserted
add_user_ipv6_second_entry_only(tbl, password, login, ipv6) ==
    LET lg == IF IsSome(login) THEN Unwrap(login) ELSE AnonLogin(Cardinality(DOMAIN tbl))
        two == compute_auth(Some(password), login)
    IN Insert(tbl, Unwrap(two.challenge),
              [secret |-> Unwrap(two.secret), login |-> lg, restricted_to_ip6 |-> ipv6])

\* CryptoNoise::add_user_ipv6
add_user_ipv6(tbl, password, login, ipv6) ==
    LET lg == IF IsSome(login) THEN Unwrap(login) ELSE AnonLogin(Cardinality(DOMAIN tbl))
        one == compute_auth(Some(password), None)
        two == compute_auth(Some(password), login)
        tbl1 == IF IsSome(login)
                THEN Insert(tbl, Unwrap(one.challenge),
                            [secret |-> Unwrap(one.secret), login |-> lg,
                             restricted_to_ip6 |-> ipv6])
                ELSE tbl
    IN Insert(tbl1, Unwrap(two.challenge),
              [secret |-> Unwrap(two.secret), login |-> lg, restricted_to_ip6 |-> ipv6])

\* CryptoNoise::get_auth
get_auth(tbl, ch) == IF ch \in DOMAIN tbl THEN Some(tbl[ch]) ELSE None

\* ------------------------------------------------------------------ sessions
\* Session::new1: the SessionInner and the Session handle, or the error
Session_new1(her_pub_key, display_name, is_initiator, require_auth, index, oid) ==
    IF is_zero(her_pub_key) THEN [ok |-> FALSE, err |-> "KeyUnknown"]
    ELSE IF ip6_from_key(her_pub_key)[1] /= 252 THEN [ok |-> FALSE, err |-> "InvalidKey"]
    ELSE [ok |-> TRUE, err |-> "",
          inner |-> [tunnel |-> [index |-> index, psk |-> None],
                     initiator |-> IF is_initiator
                                   THEN Some([m |-> [auth |-> None,
                                                     peer_recv_index |-> None,
                                                     additional_data |-> <<>>],
                                              peer_recv_index |-> USIZE_MAX])
                                   ELSE None,
                     her_pubkey |-> her_pub_key,
                     her_ip6 |-> ip6_from_key(her_pub_key),
                     require_auth |-> require_auth],
          sess |-> [inner |-> oid,
                    display_name |-> display_name,
                    her_ip6 |-> ip6_from_key(her_pub_key),
                    her_pubkey |-> her_pub_key,
                    id |-> UNASSIGNED,
                    ifaces |-> TRUE]]

\* impl Drop for Session: self.ca.sessions.write().remove(&self.id)
Session_drop(sess_map, s) == Remove(sess_map, s.id)

\* ------------------------------------------------------------------ additional data
\* cnoise::CNoiseEntity as serialized: a type byte, a length byte and the value
PrevSessIndex(peer_index) == [kind |-> "PrevSessIndex", val |-> <<peer_index>>, n |-> 6]
CjdnsPsk(ch) == [kind |-> "CjdnsPsk", val |-> ch, n |-> 34]

RECURSIVE msg_len(_)
\* Message::len of a message made of entries
msg_len(msg) == IF msg = <<>> THEN 0 ELSE Head(msg).n + msg_len(Tail(msg))

\* cnoise::push_ent: the entry goes in front of what the message holds
push_ent(msg, ent) == <<ent>> \o msg

\* cnoise::pad: padding in front, up to a multiple of n bytes
pad(msg, n) ==
    IF msg_len(msg) % n = 0 THEN msg
    ELSE <<[kind |-> "Pad", val |-> <<>>, n |-> n - (msg_len(msg) % n)]>> \o msg

\* variant: the block is left unpadded
update_additional_unpadded(m) ==
    LET msg0 == <<>>
        msg1 == IF IsSome(m.peer_recv_index)
                THEN push_ent(msg0, PrevSessIndex(Unwrap(m.peer_recv_index)))
                ELSE msg0
        msg2 == IF IsSome(m.auth) THEN push_ent(msg1, CjdnsPsk(Unwrap(m.auth))) ELSE msg1
    IN [m |-> [m EXCEPT !.additional_data = msg2], ok |-> TRUE]

\* InitiatorSessionMut::update_additional; ok is the assert_eq on the length
update_additional(m) ==
    LET msg0 == <<>>
        msg1 == IF IsSome(m.peer_recv_index)
                THEN push_ent(msg0, PrevSessIndex(Unwrap(m.peer_recv_index)))
                ELSE msg0
        msg2 == IF IsSome(m.auth) THEN push_ent(msg1, CjdnsPsk(Unwrap(m.auth))) ELSE msg1
        msg3 == IF msg_len(msg2) > 0 THEN pad(msg2, 4) ELSE msg2
    IN [m |-> [m EXCEPT !.additional_data = msg3], ok |-> msg_len(msg3) % 4 = 0]

\* update_peer_index up to the test of the swapped value: the atomic swap of the
\* cache; go says whether the write lock will be taken (an initiator whose cache held
\* another value)
upi_swap(inner, peer_index) ==
    IF ~IsSome(inner.initiator) THEN [inner |-> inner, go |-> FALSE]
    ELSE [inner |-> [inner EXCEPT !.initiator =
                        Some([Unwrap(inner.initiator) EXCEPT !.peer_recv_index = peer_index])],
          go |-> Unwrap(inner.initiator).peer_recv_index /= peer_index]

\* variant: the write lock is taken and nothing is recorded
upi_write_unrecorded(inner, peer_index) == [inner |-> inner, ok |-> TRUE]

\* update_peer_index under m.write(): the index is recorded and the block rebuilt; ok
\* is the assert of update_additional
upi_write(inner, peer_index) ==
    LET initiator == Unwrap(inner.initiator)
        u == update_additional([initiator.m EXCEPT !.peer_recv_index = Some(peer_index)])
    IN [inner |-> [inner EXCEPT !.initiator = Some([initiator EXCEPT !.m = u.m])],
        ok |-> u.ok]

\* SessionInner::update_peer_index, run to its return
update_peer_index(inner, peer_index) ==
    LET s == upi_swap(inner, peer_index)
    IN IF s.go THEN upi_write(s.inner, peer_index) ELSE [inner |-> s.inner, ok |-> TRUE]

\* variant: the additional data is rewritten, the pre-shared key is left as it was
set_auth_block_only(inner, password, login) ==
    IF IsSome(inner.initiator)
    THEN LET initiator == Unwrap(inner.initiator)
             a == compute_auth(password, login)
             u == update_additional([initiator.m EXCEPT !.auth = a.challenge])
         IN [inner |-> [inner EXCEPT !.initiator = Some([initiator EXCEPT !.m = u.m])],
             ok |-> u.ok]
    ELSE [inner |-> inner, ok |-> TRUE]

\* Session::set_auth; ok is the assert of update_additional
set_auth(inner, password, login) ==
    IF IsSome(inner.initiator)
    THEN LET initiator == Unwrap(inner.initiator)
             a == compute_auth(password, login)
             u == update_additional([initiator.m EXCEPT !.auth = a.challenge])
         IN [inner |-> [inner EXCEPT !.initiator = Some([initiator EXCEPT !.m = u.m]),
                                     !.tunnel.psk = IF u.ok THEN a.secret ELSE @],
             ok |-> u.ok]
    ELSE [inner |-> inner, ok |-> TRUE]

\* ------------------------------------------------------------------ messages
PacketKinds == {"HandshakeInit", "HandshakeResponse", "PacketCookieReply", "PacketData"}
VerifyResults == {"Ok", "WriteToNetwork", "Err"}
TunnResults == {"WriteToNetwork", "Err"}

\* the Challenge2 values a peer may put in its additional data
PeerChallenges ==
    {hash_password(<<>>, "wrong", "One").challenge}
    \cup {hash_password(l, p, "Two").challenge : l \in Logins, p \in Passwords}

\* the PrevSessIndex values a peer sends
PrevIndexes == {1}

\* the parsed additional-data block of a handshake (cnoise::parse_additional_data)
AdditionalDatas ==
    {None}
    \cup {Some([parse_ok |-> FALSE, cjdns_psk |-> None, prev_sess_id |-> None])}
    \cup {Some([parse_ok |-> TRUE, cjdns_psk |-> c, prev_sess_id |-> p]) :
             c \in {None} \cup {Some(x) : x \in PeerChallenges},
             p \in {None} \cup {Some(i) : i \in PrevIndexes}}

GoodInit(ad, k) ==
    [frame_ok |-> TRUE, verify |-> "Ok", kind |-> "HandshakeInit", anon_ok |-> TRUE,
     additional_data |-> ad, peer_static_public |-> k]

\* a ciphertext packet with no our_index, as the library calls see it
InitMsgs ==
    {GoodInit(ad, k) : ad \in AdditionalDatas, k \in PeerKeys}
    \cup {[GoodInit(None, "kA") EXCEPT !.frame_ok = FALSE]}
    \cup {[GoodInit(None, "kA") EXCEPT !.verify = v] : v \in VerifyResults}
    \cup {[GoodInit(ad, "kA") EXCEPT !.verify = "WriteToNetwork"] :
             ad \in {Some([parse_ok |-> TRUE, cjdns_psk |-> Some(c),
                           prev_sess_id |-> Some(i)]) :
                        c \in PeerChallenges, i \in PrevIndexes}}
    \cup {[GoodInit(None, "kA") EXCEPT !.kind = k] : k \in PacketKinds}
    \cup {[GoodInit(None, "kA") EXCEPT !.anon_ok = FALSE]}

NoMsg == [GoodInit(None, "kZero") EXCEPT !.frame_ok = FALSE, !.verify = "Err"]

\* ------------------------------------------------------------------ results
NoRet == [ok |-> FALSE, err |-> "", code |-> "", session |-> None]
Ok(code, session) == [ok |-> TRUE, err |-> "", code |-> code, session |-> session]
Err(e) == [ok |-> FALSE, err |-> e, code |-> "", session |-> None]

NoLoc ==
    [op |-> "none", msg |-> NoMsg, require_auth |-> FALSE, her_pub_key |-> "kZero",
     is_initiator |-> FALSE, display_name |-> <<>>, user_opt |-> None, index |-> 0,
     sess |-> None, inner |-> 0, buf |-> "none", tunn |-> "none", handled |-> 0,
     ret |-> NoRet, len |-> 0, our_index |-> None, peer_index |-> None, add |-> None,
     sent |-> <<>>, password |-> None, login |-> None, psk |-> None, tries |-> 0]

VARIABLES users, sessions, next_sess_index, inners, handles, pc, loc, nAlloc, hist

vars == <<users, sessions, next_sess_index, inners, handles, pc, loc, nAlloc, hist>>

\* what was called so far (not program state): the (password, login) pairs given to
\* add_user, and the answers of ifaces() in the order of the calls
NoHist == [added |-> {}, ifaces |-> <<>>]

\* CryptoNoise::new
Init ==
    /\ users = <<>>
    /\ sessions = <<>>
    /\ next_sess_index = 1
    /\ inners = <<>>
    /\ handles = {}
    /\ pc = [t \in SeqThreads |-> "idle"]
    /\ loc = [t \in SeqThreads |-> NoLoc]
    /\ nAlloc = 0
    /\ hist = NoHist

\* Arc<SessionInner>: an inner lives while the map, a handle or a call holds it
Referenced(sess_map, hs, locs) ==
    Range(sess_map) \cup {h.inner : h \in hs}
    \cup {locs[t].inner : t \in DOMAIN locs}
    \cup {Unwrap(locs[t].sess).inner : t \in {u \in DOMAIN locs : IsSome(locs[u].sess)}}
    \cup {Unwrap(locs[t].ret.session).inner :
             t \in {u \in DOMAIN locs : IsSome(locs[u].ret.session)}}

Collect(heap, sess_map, hs, locs) ==
    [o \in (DOMAIN heap) \cap Referenced(sess_map, hs, locs) |-> heap[o]]

\* ------------------------------------------------------------------ steps
\* The shared state as one record, so that a step is an operator from (g, l) to
\* (g, l, pc): the registry specification takes the steps one at a time, the
\* dispatcher specification runs a call to its return.
G ==
    [users |-> users, sessions |-> sessions, next_sess_index |-> next_sess_index,
     inners |-> inners, handles |-> handles, nAlloc |-> nAlloc, hist |-> hist]

R(g, l, p) == [g |-> g, l |-> l, pc |-> p]

\* the state after a step of thread t; an inner nobody holds any more is freed
Apply(t, r) ==
    /\ r.pc /= "blocked"
    /\ users' = r.g.users
    /\ sessions' = r.g.sessions
    /\ next_sess_index' = r.g.next_sess_index
    /\ handles' = r.g.handles
    /\ nAlloc' = r.g.nAlloc
    /\ hist' = r.g.hist
    /\ loc' = [loc EXCEPT ![t] = r.l]
    /\ pc' = [pc EXCEPT ![t] = r.pc]
    /\ inners' = Collect(r.g.inners, sessions', handles', loc')

\* the counter is capped at cap.fetches calls of fetch_add and cap.built Sessions
CanAlloc(g, cap) == g.next_sess_index <= cap.fetches /\ g.nAlloc < cap.built

\* ------------------------------------------------------------------ Session::new0
\* the first statements of the loop body: fetch_add on the counter, truncated to
\* u32, then new1 (which fails on a rejected key, after the index was taken)
new0_fetch(g, l, cap) ==
    IF ~CanAlloc(g, cap) THEN R(g, l, "blocked")
    ELSE LET index == g.next_sess_index % IndexSpace
             oid == g.nAlloc + 1
             r == Session_new1(l.her_pub_key, l.display_name, l.is_initiator,
                               l.require_auth, index, oid)
             g1 == [g EXCEPT !.next_sess_index = (g.next_sess_index + 1) % UsizeSpace]
         IN IF r.ok
            THEN R([g1 EXCEPT !.nAlloc = oid, !.inners = Insert(g.inners, oid, r.inner)],
                   [l EXCEPT !.index = index, !.sess = Some(r.sess), !.tries = @ + 1],
                   "new0_insert")
            ELSE R(g1, [l EXCEPT !.index = index, !.ret = Err(r.err), !.tries = @ + 1],
                   "done")

\* under sessions.write(): insert(index, inner); an entry that was there is put back
new0_insert(sess_map, index, inner) ==
    IF index \in DOMAIN sess_map
    THEN [sessions |-> Insert(Insert(sess_map, index, inner), index, sess_map[index]),
          collided |-> TRUE]
    ELSE [sessions |-> Insert(sess_map, index, inner), collided |-> FALSE]

\* the match on the result of insert: retry, or return the Session
new0_inserted(g, l) ==
    LET s == Unwrap(l.sess)
        r == new0_insert(g.sessions, l.index, s.inner)
        g1 == [g EXCEPT !.sessions = r.sessions]
    IN IF r.collided THEN R(g1, l, "new0_drop")
       ELSE IF l.op = "Session_new"
       THEN R(g1, [l EXCEPT !.ret = Ok("", l.sess), !.sess = None], "done")
       ELSE R(g1, [l EXCEPT !.inner = s.inner], "init_psk")

\* variant: the insert is tried again at the index that was occupied
new0_dropped_same_index(g, l) ==
    R([g EXCEPT !.sessions = Session_drop(g.sessions, Unwrap(l.sess))], l, "new0_insert")

\* `continue`: the Session built for the occupied index goes out of scope
new0_dropped(g, l) ==
    R([g EXCEPT !.sessions = Session_drop(g.sessions, Unwrap(l.sess))],
      [l EXCEPT !.sess = None],
      "new0_fetch")

\* Session::new(ca, her_pub_key, display_name) = new0(.., true, false)
Session_new(her_pub_key) ==
    [NoLoc EXCEPT !.op = "Session_new", !.her_pub_key = her_pub_key,
                  !.display_name = <<"out">>, !.is_initiator = TRUE,
                  !.require_auth = FALSE]

\* ------------------------------------------------------------------ handle_init_msg
\* variant: a cookie answer of the rate limiter is taken for a verified packet
verify_outcome_cookie_proceeds(res) ==
    CASE res \in {"Ok", "WriteToNetwork"} -> "proceed"
      [] OTHER -> "InvalidPacket"

\* the match on noise_handshaker.verify_packet
verify_outcome(res) ==
    CASE res = "Ok" -> "proceed"
      [] res = "WriteToNetwork" -> "cookie"
      [] OTHER -> "InvalidPacket"

\* the match on the kind of the verified packet
packet_kind_err(kind) ==
    CASE kind = "HandshakeInit" -> ""
      [] kind \in {"HandshakeResponse", "PacketCookieReply"} -> "StrayKey"
      [] OTHER -> "NoSession"

\* variant: a challenge that misses the Auth Table identifies no user
auth_lookup_miss_is_anonymous(tbl, ad) ==
    IF ~IsSome(ad) THEN [err |-> "", user_opt |-> None, prev_sess_id |-> None]
    ELSE IF ~Unwrap(ad).parse_ok
    THEN [err |-> "AdditionalData", user_opt |-> None, prev_sess_id |-> None]
    ELSE [err |-> "",
          user_opt |-> IF IsSome(Unwrap(ad).cjdns_psk)
                       THEN get_auth(tbl, Unwrap(Unwrap(ad).cjdns_psk))
                       ELSE None,
          prev_sess_id |-> Unwrap(ad).prev_sess_id]

\* the additional data of the valid handshake: (user_opt, prev_sess_id), or the error
auth_lookup(tbl, ad) ==
    IF ~IsSome(ad) THEN [err |-> "", user_opt |-> None, prev_sess_id |-> None]
    ELSE IF ~Unwrap(ad).parse_ok
    THEN [err |-> "AdditionalData", user_opt |-> None, prev_sess_id |-> None]
    ELSE IF IsSome(Unwrap(ad).cjdns_psk) /\ ~IsSome(get_auth(tbl, Unwrap(Unwrap(ad).cjdns_psk)))
    THEN [err |-> "UnrecognizedAuth", user_opt |-> None, prev_sess_id |-> None]
    ELSE [err |-> "",
          user_opt |-> IF IsSome(Unwrap(ad).cjdns_psk)
                       THEN get_auth(tbl, Unwrap(Unwrap(ad).cjdns_psk))
                       ELSE None,
          prev_sess_id |-> Unwrap(ad).prev_sess_id]

\* variant: authentication is never demanded
auth_required_never(user_opt, require_auth) == FALSE

\* if user_opt.is_none() && require_auth
auth_required(user_opt, require_auth) == ~IsSome(user_opt) /\ require_auth

\* variant: a PrevSessIndex is ignored, no session is resumed
resume_lookup_never(sess_map, heap, prev_sess_id, peer_static_public) ==
    [err |-> "", inner |-> 0]

\* variant: a session with another public key is not resumed, and no error either
resume_lookup_key_change_falls_back(sess_map, heap, prev_sess_id, peer_static_public) ==
    IF /\ IsSome(prev_sess_id) /\ Unwrap(prev_sess_id) \in DOMAIN sess_map
       /\ heap[sess_map[Unwrap(prev_sess_id)]].her_pubkey = peer_static_public
    THEN [err |-> "", inner |-> sess_map[Unwrap(prev_sess_id)]]
    ELSE [err |-> "", inner |-> 0]

\* the session a PrevSessIndex resumes: its inner (0: none), or WrongPermPubkey
resume_lookup(sess_map, heap, prev_sess_id, peer_static_public) ==
    IF IsSome(prev_sess_id) /\ Unwrap(prev_sess_id) \in DOMAIN sess_map
    THEN IF heap[sess_map[Unwrap(prev_sess_id)]].her_pubkey /= peer_static_public
         THEN [err |-> "WrongPermPubkey", inner |-> 0]
         ELSE [err |-> "", inner |-> sess_map[Unwrap(prev_sess_id)]]
    ELSE [err |-> "", inner |-> 0]

\* variant: restricted_to_ip6 is not looked at
ip_restricted_never(user_opt, her_ip6) == FALSE

\* the user's restricted_to_ip6 is set and is not the session's her_ip6
ip_restricted(user_opt, her_ip6) ==
    /\ IsSome(user_opt)
    /\ IsSome(Unwrap(user_opt).restricted_to_ip6)
    /\ Unwrap(Unwrap(user_opt).restricted_to_ip6) /= her_ip6

\* the key installed by sess.tunnel.set_preshared_key
psk_of(user_opt) == IF IsSome(user_opt) THEN Some(Unwrap(user_opt).secret) ELSE None

\* cnoise::cjdns_from_wg on a packet the library built, or on the packet that
\* wg_from_cjdns re-framed
cjdns_from_wg(buf) ==
    CASE buf = "cookie_wg" -> [ok |-> TRUE, buf |-> "cookie"]
      [] buf = "response_wg" -> [ok |-> TRUE, buf |-> "response"]
      [] buf = "packet_wg" -> [ok |-> TRUE, buf |-> "packet"]
      [] buf = "orig_wg" -> [ok |-> TRUE, buf |-> "orig"]
      [] OTHER -> [ok |-> FALSE, buf |-> buf]

\* Message::is_aligned_to(4) on a library packet, before or after re-framing
is_aligned_to4(buf) == buf \in {"cookie", "response", "packet_wg", "packet"}

\* Message::is_aligned_to(n) on a message of len bytes
is_aligned_to(len, n) == len % n = 0

\* variant: the Session made by handle_init_msg is not surfaced to the caller
reply_to_peer_without_session(buf, ret) ==
    LET f == cjdns_from_wg(buf)
    IN IF ~f.ok THEN [buf |-> f.buf, ret |-> Err("Framing")]
       ELSE IF ~is_aligned_to4(f.buf) THEN [buf |-> f.buf, ret |-> Err("AlignmentFault")]
       ELSE [buf |-> f.buf, ret |-> Ok("ReplyToPeer", None)]

\* the tail of handle_incoming after handle_init_msg returned Ok(ret)
reply_to_peer(buf, ret) ==
    LET f == cjdns_from_wg(buf)
    IN IF ~f.ok THEN [buf |-> f.buf, ret |-> Err("Framing")]
       ELSE IF ~is_aligned_to4(f.buf) THEN [buf |-> f.buf, ret |-> Err("AlignmentFault")]
       ELSE [buf |-> f.buf, ret |-> Ok("ReplyToPeer", ret)]

\* an error return of handle_init_msg: the Session it created, if any, is dropped
init_fail(g, l, e) ==
    R([g EXCEPT !.sessions = IF IsSome(l.sess) THEN Session_drop(g.sessions, Unwrap(l.sess))
                             ELSE g.sessions],
      [l EXCEPT !.sess = None, !.ret = Err(e)],
      "done")

\* handle_incoming with our_index absent, up to the AuthRequired check
init_head(g, msg, require_auth) ==
    LET l == [NoLoc EXCEPT !.op = "handle_incoming", !.msg = msg,
                           !.require_auth = require_auth, !.buf = "orig"]
        v == verify_outcome(msg.verify)
        k == packet_kind_err(msg.kind)
        a == auth_lookup(g.users, msg.additional_data)
        fail(e) == R(g, [l EXCEPT !.ret = Err(e)], "done")
    IN IF ~msg.frame_ok THEN fail("Framing")
       ELSE IF v = "cookie"
       THEN LET r == reply_to_peer("cookie_wg", None)
            IN R(g, [l EXCEPT !.buf = r.buf, !.ret = r.ret], "done")
       ELSE IF v /= "proceed" THEN fail(v)
       ELSE IF k /= "" THEN fail(k)
       ELSE IF ~msg.anon_ok THEN fail("HandshakeDecryptFailed")
       ELSE IF a.err /= "" THEN fail(a.err)
       ELSE IF auth_required(a.user_opt, require_auth) THEN fail("AuthRequired")
       ELSE R(g, [l EXCEPT !.user_opt = a.user_opt], "init_resume")

\* the lookup of prev_sess_id under sessions.read(); without a session to resume,
\* the arguments of Session::new0 for a responder
init_resume(g, l) ==
    LET ad == l.msg.additional_data
        r == resume_lookup(g.sessions, g.inners,
                           IF IsSome(ad) THEN Unwrap(ad).prev_sess_id ELSE None,
                           l.msg.peer_static_public)
    IN IF r.err /= "" THEN R(g, [l EXCEPT !.ret = Err(r.err)], "done")
       ELSE IF r.inner /= 0 THEN R(g, [l EXCEPT !.inner = r.inner], "init_psk")
       ELSE R(g,
              [l EXCEPT !.her_pub_key = l.msg.peer_static_public,
                        !.is_initiator = FALSE,
                        !.display_name = IF IsSome(l.user_opt)
                                         THEN Unwrap(l.user_opt).login
                                         ELSE <<"<anon>">>],
              "new0_fetch")

\* the address restriction, then set_preshared_key
init_psk(g, l) ==
    IF ip_restricted(l.user_opt, g.inners[l.inner].her_ip6)
    THEN init_fail(g, l, "IpRestricted")
    ELSE R([g EXCEPT !.inners[l.inner].tunnel.psk = psk_of(l.user_opt)], l, "init_handle")

\* tunnel.handle_verified_packet answering res, and the return of handle_incoming
init_handle(g, l, res) ==
    LET l1 == [l EXCEPT !.tunn = res, !.handled = l.inner]
    IN IF res = "WriteToNetwork"
       THEN LET r == reply_to_peer("response_wg", l1.sess)
            IN R(g, [l1 EXCEPT !.sess = None, !.buf = r.buf, !.ret = r.ret], "done")
       ELSE init_fail(g, l1, "HandshakeDecryptFailed")

\* one step of a call in progress
Step(g, l, p, res, cap) ==
    CASE p = "new0_fetch" -> new0_fetch(g, l, cap)
      [] p = "new0_insert" -> new0_inserted(g, l)
      [] p = "new0_drop" -> new0_dropped(g, l)
      [] p = "init_resume" -> init_resume(g, l)
      [] p = "init_psk" -> init_psk(g, l)
      [] p = "init_handle" -> init_handle(g, l, res)
      [] OTHER -> R(g, l, p)

RECURSIVE Run(_, _, _, _, _)
\* a call run to its return
Run(g, l, p, res, cap) ==
    IF p \in {"done", "blocked"} THEN R(g, l, p)
    ELSE LET r == Step(g, l, p, res, cap) IN Run(r.g, r.l, r.pc, res, cap)

\* ------------------------------------------------------------------ session calls
\* the outcomes of the tunnel calls
DecapResults ==
    {"Err", "Done", "WriteToNetwork", "CustomData", "WriteToTunnelV4", "WriteToTunnelV6"}
EncapResults == {"Done", "Err", "WriteToNetwork", "CustomData"}
TimerResults == {"Done", "ErrConnectionExpired", "Err", "WriteToNetwork", "CustomData"}

\* the lengths of the plaintext messages, and the peer_index values of the framing
PlainLens == {0, 3, 4}
PeerIndexes == {1, 2}

\* IfacePvt::send on the endpoint ep of the session
iface_send(l, ep) ==
    [l EXCEPT !.sent = Append(@, [ep |-> ep, inner |-> l.inner, buf |-> l.buf])]

\* variant: the packet is sent in the framing of the library
send_crypto_unframed(l) ==
    IF ~is_aligned_to4(l.buf) THEN [err |-> "AlignmentFault", l |-> l]
    ELSE [err |-> "", l |-> iface_send(l, "cipher")]

\* SessionInner::send_crypto: the error, or the locals after the send
send_crypto(l) ==
    LET f == cjdns_from_wg(l.buf)
    IN IF ~is_aligned_to4(l.buf) THEN [err |-> "AlignmentFault", l |-> l]
       ELSE IF ~f.ok THEN [err |-> "Framing", l |-> l]
       ELSE [err |-> "", l |-> iface_send([l EXCEPT !.buf = f.buf], "cipher")]

\* a call ends: with the error, or with Ok(code, None)
finish(g, sl, code) ==
    IF sl.err /= "" THEN R(g, [sl.l EXCEPT !.ret = Err(sl.err)], "done")
    ELSE R(g, [sl.l EXCEPT !.ret = Ok(code, None)], "done")

\* the Done and WriteToNetwork arms after update_peer_index, and the forwarding
incoming_tail(g, l, ok) ==
    IF ~ok THEN R(g, l, "panic")
    ELSE IF l.tunn = "Done"
    THEN finish(g, [err |-> "", l |-> [l EXCEPT !.buf = "empty"]], "Done")
    ELSE finish(g, send_crypto([l EXCEPT !.buf = "packet_wg"]), "Done")

\* handle_incoming on a packet whose framing gives our_index = Some(index), up to the
\* write lock of update_peer_index when it is taken, to the return otherwise
incoming_head(g, index, peer_index, res) ==
    LET l0 == [NoLoc EXCEPT !.op = "handle_incoming", !.our_index = Some(index),
                            !.peer_index = peer_index, !.buf = "orig_wg"]
    IN IF index \notin DOMAIN g.sessions
       THEN R(g, [l0 EXCEPT !.ret = Err("NoSession")], "done")
       ELSE
       LET o == g.sessions[index]
           l == [l0 EXCEPT !.inner = o, !.tunn = res, !.handled = o]
           s == IF IsSome(peer_index)
                THEN upi_swap(g.inners[o], Unwrap(peer_index))
                ELSE [inner |-> g.inners[o], go |-> FALSE]
           g1 == [g EXCEPT !.inners[o] = s.inner]
           f == cjdns_from_wg(l.buf)
       IN CASE res = "Err" ->
                 IF ~f.ok THEN R(g, [l EXCEPT !.ret = Err("Framing")], "done")
                 ELSE finish(g, [err |-> "",
                                 l |-> iface_send([l EXCEPT !.buf = "error_envelope"],
                                                  "plain")],
                             "Done")
            [] res \in {"Done", "WriteToNetwork"} ->
                 IF s.go THEN R(g1, l, "upi_write") ELSE incoming_tail(g1, l, TRUE)
            [] res = "CustomData" ->
                 finish(g, [err |-> "",
                            l |-> iface_send([l EXCEPT !.buf = "ok_header_payload"],
                                             "plain")],
                        "Done")
            [] OTHER -> R(g, l, "panic")

\* the rest of handle_incoming, from the write lock of update_peer_index
incoming_write(g, l) ==
    LET u == upi_write(g.inners[l.inner], Unwrap(l.peer_index))
    IN incoming_tail([g EXCEPT !.inners[l.inner] = u.inner], l, u.ok)

\* handle_incoming on a packet for an existing session, run to its return
incoming_existing(g, index, peer_index, res) ==
    LET r == incoming_head(g, index, peer_index, res)
    IN IF r.pc = "upi_write" THEN incoming_write(r.g, r.l) ELSE r

\* the locals of PlaintextRecv::recv once the tunnel was called: its outcome, and the
\* additional data it was given (encapsulate_add for an initiator, encapsulate else)
plaintext_locals(g, o, len, res) ==
    [NoLoc EXCEPT !.op = "plaintext_recv", !.inner = o, !.len = len, !.buf = "plain",
                  !.tunn = res, !.psk = g.inners[o].tunnel.psk,
                  !.add = IF IsSome(g.inners[o].initiator)
                          THEN Some(Unwrap(g.inners[o].initiator).m.additional_data)
                          ELSE None]

\* variant: every outcome but WriteToNetwork is taken as Done
plaintext_encap_lenient(g, l, res) ==
    IF res = "WriteToNetwork" THEN finish(g, send_crypto([l EXCEPT !.buf = "packet_wg"]), "")
    ELSE finish(g, [err |-> "", l |-> [l EXCEPT !.buf = "empty"]], "")

\* the match on the outcome of encapsulate, and the send of a non-empty message
plaintext_encap(g, l, res) ==
    CASE res = "Done" ->
            finish(g, [err |-> "", l |-> [l EXCEPT !.buf = "empty"]], "")
      [] res = "Err" -> R(g, [l EXCEPT !.ret = Err("Encapsulate")], "done")
      [] res = "WriteToNetwork" ->
            finish(g, send_crypto([l EXCEPT !.buf = "packet_wg"]), "")
      [] OTHER -> R(g, [l EXCEPT !.ret = Err("Unexpected")], "done")

\* variant: the message goes to the tunnel unchecked
plaintext_recv_unguarded(g, o, len, res) ==
    plaintext_encap(g, plaintext_locals(g, o, len, res), res)

\* PlaintextRecv::recv on the session o with a message of len bytes
plaintext_recv(g, o, len, res) ==
    LET l0 == [NoLoc EXCEPT !.op = "plaintext_recv", !.inner = o, !.len = len,
                            !.buf = "plain"]
    IN IF ~(len > 0) THEN R(g, [l0 EXCEPT !.ret = Err("ZeroLength")], "done")
       ELSE IF ~is_aligned_to(len, 4)
       THEN R(g, [l0 EXCEPT !.ret = Err("AlignmentFault")], "done")
       ELSE plaintext_encap(g, plaintext_locals(g, o, len, res), res)

\* Session::tick of the handle h, up to the call of the tunnel: the block is cloned
\* under m.read() and the lock released
tick_read(g, h) ==
    R(g,
      [NoLoc EXCEPT !.op = "tick", !.inner = h.inner,
                    !.add = IF IsSome(g.inners[h.inner].initiator)
                            THEN Some(Unwrap(g.inners[h.inner].initiator).m.additional_data)
                            ELSE Some(<<>>)],
      "tick_timers")

\* the rest of Session::tick: update_timers_add answers res, and the decapsulate that
\* follows a Done answers res2
tick_timers(g, l0, res, res2) ==
    LET l == [l0 EXCEPT !.tunn = res, !.psk = g.inners[l0.inner].tunnel.psk]
        p == CASE res = "Done" -> res2 = "WriteToNetwork"
               [] res = "WriteToNetwork" -> TRUE
               [] OTHER -> FALSE
        f == cjdns_from_wg("packet_wg")
    IN IF res \notin {"Done", "ErrConnectionExpired", "Err", "WriteToNetwork"}
       THEN R(g, l, "panic")
       ELSE IF ~p THEN R(g, [l EXCEPT !.ret = Ok("None", None)], "done")
       ELSE IF ~f.ok THEN R(g, [l EXCEPT !.ret = Err("Framing")], "done")
       ELSE IF ~is_aligned_to4(f.buf)
       THEN R(g, [l EXCEPT !.ret = Err("AlignmentFault")], "done")
       ELSE R(g, [l EXCEPT !.buf = f.buf, !.ret = Ok("Some", None)], "done")

\* Session::tick, run to its return
tick(g, h, res, res2) ==
    LET r == tick_read(g, h) IN tick_timers(r.g, r.l, res, res2)

\* Session::set_auth on the handle h
session_set_auth(g, h, password, login) ==
    LET u == set_auth(g.inners[h.inner], password, login)
        l == [NoLoc EXCEPT !.op = "set_auth", !.inner = h.inner, !.password = password,
                           !.login = login]
    IN R([g EXCEPT !.inners[h.inner] = u.inner],
         [l EXCEPT !.ret = Ok("", None)],
         IF u.ok THEN "done" ELSE "panic")

\* variant: the endpoints are handed out and kept (a get, not a take)
session_ifaces_keeps(g, h) ==
    LET l == [NoLoc EXCEPT !.op = "ifaces", !.inner = h.inner]
    IN R([g EXCEPT !.hist.ifaces = Append(@, [inner |-> h.inner, some |-> h.ifaces])],
         [l EXCEPT !.ret = Ok(IF h.ifaces THEN "Some" ELSE "None", None)],
         "done")

\* Session::ifaces on the handle h: self.ifaces.lock().take()
session_ifaces(g, h) ==
    LET l == [NoLoc EXCEPT !.op = "ifaces", !.inner = h.inner]
    IN R([g EXCEPT !.handles = (@ \ {h}) \cup {[h EXCEPT !.ifaces = FALSE]},
                   !.hist.ifaces = Append(@, [inner |-> h.inner, some |-> h.ifaces])],
         [l EXCEPT !.ret = Ok(IF h.ifaces THEN "Some" ELSE "None", None)],
         "done")

\* ------------------------------------------------------------------ actions
RegCap == [fetches |-> MaxFetch, built |-> MaxSessions]
DispCap == [fetches |-> DispFetch, built |-> DispSessions]

SessionNew(t, key) ==
    /\ pc[t] = "idle"
    /\ Apply(t, new0_fetch(G, Session_new(key), RegCap))

\* the next iteration of the loop, after a collision
New0Fetch(t) ==
    /\ pc[t] = "new0_fetch"
    /\ Apply(t, new0_fetch(G, loc[t], RegCap))

New0Insert(t) ==
    /\ pc[t] = "new0_insert"
    /\ Apply(t, new0_inserted(G, loc[t]))

New0Drop(t) ==
    /\ pc[t] = "new0_drop"
    /\ Apply(t, new0_dropped(G, loc[t]))

\* the caller takes the result of a finished call
Return(t) ==
    /\ pc[t] = "done"
    /\ Apply(t, R([G EXCEPT !.handles = IF IsSome(loc[t].ret.session)
                                        THEN handles \cup {Unwrap(loc[t].ret.session)}
                                        ELSE handles],
                  NoLoc, "idle"))

\* the owner of a Session handle releases it
DropHandle(t, h) ==
    /\ pc[t] = "idle"
    /\ h \in handles
    /\ Apply(t, R([G EXCEPT !.handles = handles \ {h},
                            !.sessions = Session_drop(sessions, h)],
                  loc[t], "idle"))

AddUser(t, password, login, ipv6) ==
    /\ pc[t] = "idle"
    /\ add_user_ipv6(users, password, login, ipv6) /= users
    /\ Apply(t, R([G EXCEPT !.users = add_user_ipv6(users, password, login, ipv6),
                            !.hist.added = @ \cup {<<password, login>>}],
                  loc[t], "idle"))

\* handle_incoming on a packet with no our_index, the tunnel answering res
HandleIncoming(t, msg, require_auth, res) ==
    /\ pc[t] = "idle"
    /\ LET h == init_head(G, msg, require_auth)
       IN Apply(t, Run(h.g, h.l, h.pc, res, DispCap))

\* the registry: creation by Session::new on two threads, release of the handles
NextRegistry ==
    \/ \E t \in DOMAIN pc, k \in NewKeys : SessionNew(t, k)
    \/ \E t \in DOMAIN pc : New0Fetch(t)
    \/ \E t \in DOMAIN pc : New0Insert(t)
    \/ \E t \in DOMAIN pc : New0Drop(t)
    \/ \E t \in DOMAIN pc : Return(t)
    \/ \E t \in DOMAIN pc, h \in handles : DropHandle(t, h)

InitRegistry ==
    /\ users = <<>>
    /\ sessions = <<>>
    /\ next_sess_index = 1
    /\ inners = <<>>
    /\ handles = {}
    /\ pc = [t \in ConcThreads |-> "idle"]
    /\ loc = [t \in ConcThreads |-> NoLoc]
    /\ nAlloc = 0
    /\ hist = NoHist

SpecRegistry == InitRegistry /\ [][NextRegistry]_vars

\* the ingress dispatcher on packets with no our_index, and the Auth Table
Next ==
    \/ \E t \in DOMAIN pc, p \in Passwords, l \in {Some(x) : x \in Logins},
             ip \in RestrictIps : AddUser(t, p, l, ip)
    \/ \E t \in DOMAIN pc, m \in InitMsgs, ra \in BOOLEAN, res \in TunnResults :
          HandleIncoming(t, m, ra, res)
    \/ \E t \in DOMAIN pc : Return(t)

Spec == Init /\ [][Next]_vars

\* ifaces() calls made in the handoff specification
MaxIfacesCalls == 3

Incoming(t, index, peer_index, res) ==
    /\ pc[t] = "idle"
    /\ Apply(t, incoming_existing(G, index, peer_index, res))

PlaintextRecv(t, o, len, res) ==
    /\ pc[t] = "idle"
    /\ o \in DOMAIN inners
    /\ Apply(t, plaintext_recv(G, o, len, res))

Tick(t, h, res, res2) ==
    /\ pc[t] = "idle"
    /\ h \in handles
    /\ Apply(t, tick(G, h, res, res2))

SetAuth(t, h, password, login) ==
    /\ pc[t] = "idle"
    /\ h \in handles
    /\ Apply(t, session_set_auth(G, h, password, login))

Ifaces(t, h) ==
    /\ pc[t] = "idle"
    /\ h \in handles
    /\ Len(hist.ifaces) < MaxIfacesCalls
    /\ Apply(t, session_ifaces(G, h))

\* a registry after Session::new for kA (the initiator, index 1) and after a
\* handshake init of kB was answered (the responder, index 2)
TwoSessions ==
    LET g0 == [users |-> <<>>, sessions |-> <<>>, next_sess_index |-> 1, inners |-> <<>>,
               handles |-> {}, nAlloc |-> 0, hist |-> NoHist]
        f1 == new0_fetch(g0, Session_new("kA"), DispCap)
        r1 == Run(f1.g, f1.l, f1.pc, "WriteToNetwork", DispCap)
        g1 == [r1.g EXCEPT !.handles = {Unwrap(r1.l.ret.session)}]
        f2 == init_head(g1, GoodInit(None, "kB"), FALSE)
        r2 == Run(f2.g, f2.l, f2.pc, "WriteToNetwork", DispCap)
    IN [r2.g EXCEPT !.handles = @ \cup {Unwrap(r2.l.ret.session)}]

InitSessions(threads) ==
    /\ users = TwoSessions.users
    /\ sessions = TwoSessions.sessions
    /\ next_sess_index = TwoSessions.next_sess_index
    /\ inners = TwoSessions.inners
    /\ handles = TwoSessions.handles
    /\ pc = [t \in threads |-> "idle"]
    /\ loc = [t \in threads |-> NoLoc]
    /\ nAlloc = TwoSessions.nAlloc
    /\ hist = NoHist

\* the arguments set_auth is called with
SetAuthPasswords == {None} \cup {Some(x) : x \in Passwords}
SetAuthLogins == {None} \cup {Some(x) : x \in Logins}

\* the calls on existing sessions, one at a time
NextSession ==
    \/ \E t \in DOMAIN pc, i \in {1, 2, 3}, p \in {None} \cup {Some(x) : x \in PeerIndexes},
             res \in DecapResults : Incoming(t, i, p, res)
    \/ \E t \in DOMAIN pc, o \in DOMAIN inners, len \in PlainLens, res \in EncapResults :
          PlaintextRecv(t, o, len, res)
    \/ \E t \in DOMAIN pc, h \in handles, res \in TimerResults,
             res2 \in {"WriteToNetwork", "Done"} : Tick(t, h, res, res2)
    \/ \E t \in DOMAIN pc, h \in handles, p \in SetAuthPasswords, l \in SetAuthLogins :
          SetAuth(t, h, p, l)
    \/ \E t \in DOMAIN pc : Return(t)

InitSession == InitSessions(SeqThreads)

SpecSession == InitSession /\ [][NextSession]_vars

\* creations in the termination specification: a creation is started while fewer
\* than LiveCalls sessions were added to the two of the registry, and while the
\* Sessions of a creation retried over the whole index space and once more are left
\* to build
LiveCalls == 2
LiveCap ==
    [fetches |-> UsizeSpace, built |-> TwoSessions.nAlloc + LiveCalls * (IndexSpace + 1)]

SessionNewLive(t, key) ==
    /\ pc[t] = "idle"
    /\ Cardinality(DOMAIN sessions) < Cardinality(DOMAIN TwoSessions.sessions) + LiveCalls
    /\ nAlloc + IndexSpace + 1 <= LiveCap.built
    /\ Apply(t, new0_fetch(G, Session_new(key), LiveCap))

New0FetchLive(t) ==
    /\ pc[t] = "new0_fetch"
    /\ Apply(t, new0_fetch(G, loc[t], LiveCap))

\* the loop of Session::new0 goes on: a thread inside it takes its next step
New0Progress ==
    \E t \in SeqThreads : New0FetchLive(t) \/ New0Insert(t) \/ New0Drop(t)

\* one thread creating Sessions in a registry that holds two, the counter wrapping
NextLive ==
    \/ \E t \in DOMAIN pc, k \in NewKeys : SessionNewLive(t, k)
    \/ \E t \in DOMAIN pc : New0FetchLive(t)
    \/ \E t \in DOMAIN pc : New0Insert(t)
    \/ \E t \in DOMAIN pc : New0Drop(t)
    \/ \E t \in DOMAIN pc : Return(t)

SpecLive == InitSession /\ [][NextLive]_vars /\ WF_vars(New0Progress)

\* handle_incoming on a packet for an existing session, up to the write lock
IncomingHead(t, index, peer_index, res) ==
    /\ pc[t] = "idle"
    /\ Apply(t, incoming_head(G, index, peer_index, res))

\* update_peer_index gets the write lock, and handle_incoming runs to its return
IncomingWrite(t) ==
    /\ pc[t] = "upi_write"
    /\ Apply(t, incoming_write(G, loc[t]))

\* tick clones the additional data
TickRead(t, h) ==
    /\ pc[t] = "idle"
    /\ h \in handles
    /\ Apply(t, tick_read(G, h))

\* tick calls the tunnel and runs to its return
TickTimers(t, res, res2) ==
    /\ pc[t] = "tick_timers"
    /\ Apply(t, tick_timers(G, loc[t], res, res2))

\* the calls on existing sessions from two threads; a call takes a step of its own
\* wherever it holds no lock between two accesses of the shared state
NextConc ==
    \/ \E t \in DOMAIN pc, i \in DOMAIN sessions, p \in PeerIndexes,
             res \in {"Done", "CustomData"} : IncomingHead(t, i, Some(p), res)
    \/ \E t \in DOMAIN pc : IncomingWrite(t)
    \/ \E t \in DOMAIN pc, o \in DOMAIN inners : PlaintextRecv(t, o, 4, "WriteToNetwork")
    \/ \E t \in DOMAIN pc, h \in handles : TickRead(t, h)
    \/ \E t \in DOMAIN pc, res \in {"WriteToNetwork", "Err"} :
          TickTimers(t, res, "WriteToNetwork")
    \/ \E t \in DOMAIN pc, h \in handles, p \in SetAuthPasswords, l \in SetAuthLogins :
          SetAuth(t, h, p, l)
    \/ \E t \in DOMAIN pc : Return(t)

InitConc == InitSessions(ConcThreads)

SpecConc == InitConc /\ [][NextConc]_vars

\* the handoff of the endpoints: ifaces() called from two threads
NextIfaces ==
    \/ \E t \in DOMAIN pc, h \in handles : Ifaces(t, h)
    \/ \E t \in DOMAIN pc : Return(t)

InitIfaces == InitSessions(ConcThreads)

SpecIfaces == InitIfaces /\ [][NextIfaces]_vars

\* the Auth Table alone: add_user with two passwords, with and without a login
AuthPasswords == {"pw", "pw2"}
AuthLogins == {None, Some(<<"alice">>), Some(<<"bob">>)}

NextAuth ==
    \E t \in DOMAIN pc, p \in AuthPasswords, l \in AuthLogins, ip \in RestrictIps :
        AddUser(t, p, l, ip)

SpecAuth == Init /\ [][NextAuth]_vars

\* ------------------------------------------------------------------ properties
\* the index a live handle's session was allocated (the index its tunnel is bound to)
IndexOf(h) == inners[h.inner].tunnel.index

\* a step that releases handle h
Dropped(h) == h \in handles /\ h \notin handles'

\* every entry other than i is the same after the step
OthersKept(i) ==
    \A j \in (DOMAIN sessions) \ {i} : j \in DOMAIN sessions' /\ sessions'[j] = sessions[j]

\* C1: dropping a Session that was registered under index i removes exactly the
\* entry at i: afterwards the map has no entry at i and every other entry is as before.
C1_DropRemovesOwnEntry ==
    [][\A h \in handles :
          Dropped(h) => (IndexOf(h) \notin DOMAIN sessions' /\ OthersKept(IndexOf(h)))]_vars

\* C2: for every live Session handle s, s.id is the index allocated for it and
\* registry.sessions[s.id] is that session's own inner state.
C2_HandleIsRegisteredUnderItsId ==
    \A h \in handles :
        /\ h.id = IndexOf(h)
        /\ h.id \in DOMAIN sessions
        /\ sessions[h.id] = h.inner

\* a step of a creation in progress on thread t (not the caller taking the result)
CreationStep(t) == pc'[t] /= pc[t] /\ pc[t] /= "done"

\* C3: under any interleaving of creations, a creation never replaces or removes an
\* entry already in the session map (on a collision the victim stays), and no two
\* live sessions are registered under the same index.
C3_CreationKeepsEntries ==
    [][/\ (\E t \in DOMAIN pc : CreationStep(t)) =>
              \A i \in DOMAIN sessions : i \in DOMAIN sessions' /\ sessions'[i] = sessions[i]
       /\ \A h1, h2 \in handles : h1 /= h2 => IndexOf(h1) /= IndexOf(h2)]_vars

\* C4: no session is ever registered in the session map under 0xFFFFFFFF, the value
\* reserved as "unassigned", however many indexes have been allocated.
C4_UnassignedNeverRegistered == UNASSIGNED \notin DOMAIN sessions

\* the library accepted the packet as a handshake init and its additional data parsed
Verified(m) ==
    /\ m.frame_ok /\ m.verify = "Ok" /\ m.kind = "HandshakeInit" /\ m.anon_ok
    /\ IsSome(m.additional_data) => Unwrap(m.additional_data).parse_ok

PskOf(m) == IF IsSome(m.additional_data) THEN Unwrap(m.additional_data).cjdns_psk ELSE None
PrevOf(m) == IF IsSome(m.additional_data) THEN Unwrap(m.additional_data).prev_sess_id ELSE None

\* the PrevSessIndex of m is the index of a registered session
Resolves(m) == IsSome(PrevOf(m)) /\ Unwrap(PrevOf(m)) \in DOMAIN sessions
PrevInner(m) == inners[sessions[Unwrap(PrevOf(m))]]

\* m passes the authentication checks: its challenge, if any, is in the Auth Table,
\* and it has one when authentication is required
AuthPassed(m, require_auth) ==
    /\ Verified(m)
    /\ IsSome(PskOf(m)) => Unwrap(PskOf(m)) \in DOMAIN users
    /\ require_auth => IsSome(PskOf(m))

\* the address the user of m is restricted to, None without a user or a restriction
RestrictedTo(m) ==
    IF IsSome(PskOf(m)) /\ Unwrap(PskOf(m)) \in DOMAIN users
    THEN users[Unwrap(PskOf(m))].restricted_to_ip6
    ELSE None

\* the step in which thread t handles a packet with no our_index, to its return
Started(t) ==
    /\ pc[t] = "idle" /\ pc'[t] = "done"
    /\ loc'[t].op = "handle_incoming" /\ loc'[t].our_index = None

\* the call of thread t ended in this step with error e, and it touched neither the
\* registry nor any session nor any tunnel
RejectedUntouched(t, e) ==
    /\ loc'[t].ret = Err(e)
    /\ sessions' = sessions
    /\ inners' = inners
    /\ nAlloc' = nAlloc
    /\ next_sess_index' = next_sess_index
    /\ loc'[t].handled = 0

\* C5: a verified handshake init whose additional data carries a CjdnsPsk challenge
\* that is not a key of the Auth Table is rejected with UnrecognizedAuth, whatever
\* require_auth and PrevSessIndex are: no session is created, no pre-shared key is
\* changed and no tunnel gets the handshake.
C5_UnrecognizedAuth ==
    [][\A t \in DOMAIN pc :
          (/\ Started(t)
           /\ Verified(loc'[t].msg)
           /\ IsSome(PskOf(loc'[t].msg))
           /\ Unwrap(PskOf(loc'[t].msg)) \notin DOMAIN users)
          => RejectedUntouched(t, "UnrecognizedAuth")]_vars

\* C5 happens: an unknown challenge is rejected although auth is required, the table
\* is not empty and the packet's PrevSessIndex resolves to a session holding a key
C5_Witness ==
    \E t \in DOMAIN pc :
        /\ pc[t] = "done"
        /\ loc[t].ret = Err("UnrecognizedAuth")
        /\ loc[t].require_auth
        /\ users /= <<>>
        /\ Resolves(loc[t].msg)
        /\ IsSome(PrevInner(loc[t].msg).tunnel.psk)

\* C6: with require_auth set, a verified handshake init that identifies no user fails
\* with AuthRequired before any resumption lookup or creation: the session map and
\* every tunnel's pre-shared key are unchanged, even if its PrevSessIndex resolves to a
\* session with the same public key.
C6_AuthRequired ==
    [][\A t \in DOMAIN pc :
          (/\ Started(t)
           /\ Verified(loc'[t].msg)
           /\ loc'[t].require_auth
           /\ ~IsSome(PskOf(loc'[t].msg)))
          => RejectedUntouched(t, "AuthRequired")]_vars

\* C6 happens: the rejected packet names a registered session with its own public key
C6_Witness ==
    \E t \in DOMAIN pc :
        /\ pc[t] = "done"
        /\ loc[t].ret = Err("AuthRequired")
        /\ Resolves(loc[t].msg)
        /\ PrevInner(loc[t].msg).her_pubkey = loc[t].msg.peer_static_public
        /\ IsSome(PrevInner(loc[t].msg).tunnel.psk)

\* C7: when a handshake init has passed the authentication checks (the address
\* restriction of its user included) and its PrevSessIndex resolves to a registered
\* session with the recovered public key, that session's tunnel handles the handshake,
\* the call adds no entry to the session map and allocates nothing and, when the
\* tunnel answers with a response, the result is (ReplyToPeer, None).
C7_Resumption ==
    [][\A t \in DOMAIN pc :
          (/\ Started(t)
           /\ AuthPassed(loc'[t].msg, loc'[t].require_auth)
           /\ Resolves(loc'[t].msg)
           /\ PrevInner(loc'[t].msg).her_pubkey = loc'[t].msg.peer_static_public
           /\ RestrictedTo(loc'[t].msg) \in {None, Some(PrevInner(loc'[t].msg).her_ip6)})
          => (/\ loc'[t].handled = sessions[Unwrap(PrevOf(loc'[t].msg))]
              /\ sessions' = sessions
              /\ nAlloc' = nAlloc
              /\ next_sess_index' = next_sess_index
              /\ loc'[t].tunn = "WriteToNetwork"
                 => (loc'[t].ret = Ok("ReplyToPeer", None) /\ loc'[t].buf = "response"))]_vars

\* C7 happens: an identified user resumed a registered session and got the response
C7_Witness ==
    \E t \in DOMAIN pc :
        /\ pc[t] = "done"
        /\ loc[t].ret = Ok("ReplyToPeer", None)
        /\ loc[t].buf = "response"
        /\ Resolves(loc[t].msg)
        /\ loc[t].handled = sessions[Unwrap(PrevOf(loc[t].msg))]
        /\ IsSome(loc[t].user_opt)

\* C8: when the PrevSessIndex of a handshake init that passed the authentication
\* lookup resolves to a registered session whose her_pubkey differs from the recovered
\* public key, the call fails with WrongPermPubkey: no session is created instead, the
\* session's pre-shared key is unchanged and its tunnel does not get the handshake.
C8_WrongPermPubkey ==
    [][\A t \in DOMAIN pc :
          (/\ Started(t)
           /\ AuthPassed(loc'[t].msg, loc'[t].require_auth)
           /\ Resolves(loc'[t].msg)
           /\ PrevInner(loc'[t].msg).her_pubkey /= loc'[t].msg.peer_static_public)
          => RejectedUntouched(t, "WrongPermPubkey")]_vars

\* C8 happens: an identified user named a session of another key that holds no key yet
C8_Witness ==
    \E t \in DOMAIN pc :
        /\ pc[t] = "done"
        /\ loc[t].ret = Err("WrongPermPubkey")
        /\ IsSome(loc[t].user_opt)
        /\ Resolves(loc[t].msg)
        /\ PrevInner(loc[t].msg).tunnel.psk = None

\* her_ip6 of the session chosen for m: the resumed one, or a new one for the peer key
ChosenIp6(m) ==
    IF Resolves(m) THEN PrevInner(m).her_ip6 ELSE ip6_from_key(m.peer_static_public)

\* a session is chosen for m: the one it names has its key, or a new one can be made
Chooses(m) ==
    IF Resolves(m) THEN PrevInner(m).her_pubkey = m.peer_static_public
    ELSE ~is_zero(m.peer_static_public) /\ ip6_from_key(m.peer_static_public)[1] = 252

\* C9: when the identified user's restricted_to_ip6 is set and differs from her_ip6 of
\* the session chosen for the handshake (new or resumed), the call fails with
\* IpRestricted: the user's secret is not installed in that session's tunnel (a resumed
\* session keeps its tunnel as it was, a new one has no pre-shared key) and no tunnel
\* gets the verified packet.
C9_IpRestricted ==
    [][\A t \in DOMAIN pc :
          (/\ Started(t)
           /\ AuthPassed(loc'[t].msg, loc'[t].require_auth)
           /\ Chooses(loc'[t].msg)
           /\ IsSome(RestrictedTo(loc'[t].msg))
           /\ Unwrap(RestrictedTo(loc'[t].msg)) /= ChosenIp6(loc'[t].msg))
          => (/\ loc'[t].ret = Err("IpRestricted")
              /\ loc'[t].handled = 0
              /\ loc'[t].tunn = "none"
              /\ \A o \in DOMAIN inners' :
                    IF o \in DOMAIN inners
                    THEN inners'[o].tunnel = inners[o].tunnel
                    ELSE o = loc'[t].inner /\ inners'[o].tunnel.psk = None)]_vars

\* C9 happens: a restricted user named a registered session of another address (the
\* call made no display name: it did not come to Session::new0)
C9_Witness ==
    \E t \in DOMAIN pc :
        /\ pc[t] = "done"
        /\ loc[t].ret = Err("IpRestricted")
        /\ loc[t].display_name = <<>>
        /\ Resolves(loc[t].msg)
        /\ loc[t].inner = sessions[Unwrap(PrevOf(loc[t].msg))]
        /\ inners[loc[t].inner].tunnel.psk /= Some(Unwrap(loc[t].user_opt).secret)

\* C10: when the rate limiter answers verify_packet with Err(WriteToNetwork(cookie)),
\* the buffer becomes the cookie and the result is (ReplyToPeer, None): no session is
\* created, no user is looked up and no tunnel state changes.
C10_CookieUnderLoad ==
    [][\A t \in DOMAIN pc :
          (Started(t) /\ loc'[t].msg.frame_ok /\ loc'[t].msg.verify = "WriteToNetwork")
          => (/\ loc'[t].ret = Ok("ReplyToPeer", None)
              /\ loc'[t].buf = "cookie"
              /\ loc'[t].user_opt = None
              /\ sessions' = sessions
              /\ inners' = inners
              /\ nAlloc' = nAlloc
              /\ next_sess_index' = next_sess_index
              /\ loc'[t].handled = 0)]_vars

\* C10 happens: the packet answered with a cookie carried a challenge of the Auth
\* Table and the index of a registered session
C10_Witness ==
    \E t \in DOMAIN pc :
        /\ pc[t] = "done"
        /\ loc[t].buf = "cookie"
        /\ loc[t].ret = Ok("ReplyToPeer", None)
        /\ IsSome(PskOf(loc[t].msg))
        /\ Unwrap(PskOf(loc[t].msg)) \in DOMAIN users
        /\ Resolves(loc[t].msg)

\* C11: for a packet with no our_index, every successful return is (ReplyToPeer, x),
\* where x is Some(session) iff the call added an entry to the session map; x is None
\* for the cookie reply and for a resumed session; a returned session is a new
\* responder session, registered by this call under the index of its tunnel.
C11_ReplySessionIffCreated ==
    [][\A t \in DOMAIN pc :
          (Started(t) /\ loc'[t].ret.ok)
          => (/\ loc'[t].ret.code = "ReplyToPeer"
              /\ IsSome(loc'[t].ret.session) <=> (DOMAIN sessions' /= DOMAIN sessions)
              /\ loc'[t].msg.verify = "WriteToNetwork" => loc'[t].ret.session = None
              /\ loc'[t].handled \in DOMAIN inners => loc'[t].ret.session = None
              /\ IsSome(loc'[t].ret.session)
                 => LET h == Unwrap(loc'[t].ret.session)
                        i == inners'[h.inner].tunnel.index
                    IN /\ h.inner \notin DOMAIN inners
                       /\ inners'[h.inner].initiator = None
                       /\ i \notin DOMAIN sessions
                       /\ i \in DOMAIN sessions'
                       /\ sessions'[i] = h.inner
                       /\ loc'[t].handled = h.inner)]_vars

\* C11 happens: a call returned a new session next to one registered before
C11_Witness ==
    \E t \in DOMAIN pc :
        /\ pc[t] = "done"
        /\ loc[t].ret.ok
        /\ IsSome(loc[t].ret.session)
        /\ Cardinality(DOMAIN sessions) = 2
        /\ sessions[loc[t].index] = Unwrap(loc[t].ret.session).inner

\* C12: Auth Table entries are immutable after insertion: no add_user call changes
\* the record (secret, login, restricted_to_ip6) stored under a challenge that is
\* already a key of the table.
C12_AuthEntriesImmutable ==
    [][\A c \in DOMAIN users : c \in DOMAIN users' /\ users'[c] = users[c]]_vars

\* get_auth finds, under the challenge of ca, a record with the secret of ca
HasAuth(ca) ==
    /\ IsSome(get_auth(users, Unwrap(ca.challenge)))
    /\ Unwrap(get_auth(users, Unwrap(ca.challenge))).secret = Unwrap(ca.secret)

\* C13: after add_user(password, login, _) and any later add_user calls, get_auth of
\* every challenge compute_auth yields for that user (with the given login, and with
\* no login when a login was given) returns a record whose secret is the secret
\* compute_auth returns alongside the challenge.
C13_AddedUsersAuthenticate ==
    \A e \in hist.added :
        /\ HasAuth(compute_auth(Some(e[1]), e[2]))
        /\ IsSome(e[2]) => HasAuth(compute_auth(Some(e[1]), None))

\* C13 happens: two users with one password were added, the second after the first
\* (the record under the challenge of the empty login is the second one's)
C13_Witness ==
    /\ {<<"pw", Some(<<"alice">>)>>, <<"pw", Some(<<"bob">>)>>, <<"pw2", None>>} \subseteq hist.added
    /\ Unwrap(get_auth(users, Unwrap(compute_auth(Some("pw"), None).challenge))).login = <<"bob">>

\* the call of thread t, started in this step, met an internal invariant failure: a
\* library outcome the layering treats as impossible, or an alignment fault
InternalFailure(t) ==
    /\ pc[t] = "idle" /\ pc'[t] /= "idle"
    /\ \/ loc'[t].op = "handle_incoming" /\ loc'[t].tunn \in {"WriteToTunnelV4", "WriteToTunnelV6"}
       \/ loc'[t].op = "tick" /\ loc'[t].tunn = "CustomData"
       \/ loc'[t].op = "plaintext_recv" /\ loc'[t].len > 0 /\ loc'[t].len % 4 /= 0

\* C14: an internal invariant failure is fatal only for the current packet or tick:
\* the call returns an error, the worker does not panic and no session is removed
\* from the registry.
C14_InvariantFailuresAreErrors ==
    [][\A t \in DOMAIN pc :
          InternalFailure(t)
          => (/\ pc'[t] = "done"
              /\ ~loc'[t].ret.ok
              /\ loc'[t].ret.err /= ""
              /\ sessions' = sessions)]_vars

\* the answers ifaces() gave on the session o, in the order of the calls
IfacesCalls(o) == SelectSeq(hist.ifaces, LAMBDA c : c.inner = o)

\* C15: over the ifaces() calls made on one session, from any thread, exactly one
\* returned Some (the first) and every other one returned None.
C15_IfacesSingleShot ==
    \A o \in DOMAIN inners :
        Len(IfacesCalls(o)) > 0
        => /\ IfacesCalls(o)[1].some
           /\ \A i \in 2 .. Len(IfacesCalls(o)) : ~IfacesCalls(o)[i].some

\* C15 happens: two threads have called ifaces() on one session and neither has
\* taken up its answer yet; a third call was made as well
C15_Witness ==
    /\ Len(hist.ifaces) = MaxIfacesCalls
    /\ \A t \in DOMAIN pc : pc[t] = "done" /\ loc[t].op = "ifaces"
    /\ \E t, u \in DOMAIN pc :
          /\ t /= u
          /\ loc[t].inner = loc[u].inner
          /\ loc[t].ret.code = "Some"
          /\ loc[u].ret.code = "None"

\* thread t starts the call op in this step
Calls(t, op) == pc[t] = "idle" /\ pc'[t] /= "idle" /\ loc'[t].op = op

\* C16: a plaintext message of length 0, or of a length that is no multiple of 4, is
\* rejected with an error before the tunnel is invoked: nothing is sent, and the
\* session's tunnel, additional data and registry entry are unchanged.
C16_BadPlaintextRejected ==
    [][\A t \in DOMAIN pc :
          (Calls(t, "plaintext_recv") /\ (loc'[t].len = 0 \/ loc'[t].len % 4 /= 0))
          => (/\ pc'[t] = "done"
              /\ ~loc'[t].ret.ok
              /\ loc'[t].ret.err \in {"ZeroLength", "AlignmentFault"}
              /\ loc'[t].tunn = "none"
              /\ loc'[t].sent = <<>>
              /\ inners' = inners
              /\ sessions' = sessions)]_vars

\* C16 happens: a message of 3 bytes was handed to the plaintext endpoint of a
\* registered session
C16_Witness ==
    \E t \in DOMAIN pc :
        /\ pc[t] = "done"
        /\ loc[t].op = "plaintext_recv"
        /\ loc[t].len = 3
        /\ loc[t].ret.err = "AlignmentFault"
        /\ \E i \in DOMAIN sessions : sessions[i] = loc[t].inner

\* what the dispatcher forwards for the outcome res of decapsulate on the session o
Forwarded(o, res) ==
    CASE res = "Err" -> <<[ep |-> "plain", inner |-> o, buf |-> "error_envelope"]>>
      [] res = "WriteToNetwork" -> <<[ep |-> "cipher", inner |-> o, buf |-> "packet"]>>
      [] res = "CustomData" -> <<[ep |-> "plain", inner |-> o, buf |-> "ok_header_payload"]>>
      [] OTHER -> <<>>

\* C17: for a packet whose our_index resolves to a registered session the dispatcher
\* does exactly one forwarding action, chosen by the outcome of decapsulate (Err: the
\* error envelope on the plaintext endpoint; Done: nothing; WriteToNetwork: the packet
\* on the ciphertext endpoint; CustomData: header and payload on the plaintext
\* endpoint), returns (Done, None) and neither adds nor removes a session.
C17_ExistingSessionForwarding ==
    [][\A t \in DOMAIN pc :
          (/\ Calls(t, "handle_incoming")
           /\ IsSome(loc'[t].our_index)
           /\ Unwrap(loc'[t].our_index) \in DOMAIN sessions
           /\ loc'[t].tunn \in {"Err", "Done", "WriteToNetwork", "CustomData"})
          => (/\ pc'[t] = "done"
              /\ loc'[t].ret = Ok("Done", None)
              /\ loc'[t].sent = Forwarded(sessions[Unwrap(loc'[t].our_index)], loc'[t].tunn)
              /\ sessions' = sessions)]_vars

\* C17 happens: a packet for the session at index 2 was decapsulated to CustomData and
\* forwarded
C17_Witness ==
    \E t \in DOMAIN pc :
        /\ pc[t] = "done"
        /\ loc[t].op = "handle_incoming"
        /\ loc[t].our_index = Some(2)
        /\ loc[t].tunn = "CustomData"
        /\ Len(loc[t].sent) = 1
        /\ loc[t].ret.ok

\* C18: on a non-empty, aligned message the plaintext endpoint sends exactly one packet
\* on the ciphertext endpoint for WriteToNetwork, sends nothing and clears the buffer
\* for Done, and returns an error without sending for any other outcome; it never
\* sends on the plaintext endpoint; an initiator gives the tunnel its current
\* additional data, a responder gives none.
C18_EncapsulatePlaintext ==
    [][\A t \in DOMAIN pc :
          (Calls(t, "plaintext_recv") /\ loc'[t].len > 0 /\ loc'[t].len % 4 = 0)
          => (/\ pc'[t] = "done"
              /\ loc'[t].tunn = "WriteToNetwork"
                 => /\ loc'[t].ret.ok
                    /\ loc'[t].sent
                         = <<[ep |-> "cipher", inner |-> loc'[t].inner, buf |-> "packet"]>>
              /\ loc'[t].tunn = "Done"
                 => loc'[t].ret.ok /\ loc'[t].sent = <<>> /\ loc'[t].buf = "empty"
              /\ loc'[t].tunn \notin {"WriteToNetwork", "Done"}
                 => ~loc'[t].ret.ok /\ loc'[t].sent = <<>>
              /\ \A i \in DOMAIN loc'[t].sent : loc'[t].sent[i].ep /= "plain"
              /\ loc'[t].add
                   = IF IsSome(inners[loc'[t].inner].initiator)
                     THEN Some(Unwrap(inners[loc'[t].inner].initiator).m.additional_data)
                     ELSE None)]_vars

\* C18 happens: an initiator with a non-empty additional-data block has encapsulated a
\* message and sent the packet
C18_Witness ==
    \E t \in DOMAIN pc :
        /\ pc[t] = "done"
        /\ loc[t].op = "plaintext_recv"
        /\ loc[t].tunn = "WriteToNetwork"
        /\ loc[t].len = 4
        /\ IsSome(loc[t].add)
        /\ Unwrap(loc[t].add) /= <<>>
        /\ Len(loc[t].sent) = 1

\* the entry ent is in the serialized block msg
HasEnt(msg, ent) == \E i \in DOMAIN msg : msg[i] = ent

\* an entry of the kind k is in the serialized block msg
HasKind(msg, k) == \E i \in DOMAIN msg : msg[i].kind = k

\* thread t starts handle_incoming on a packet for a registered session whose framing
\* carries a peer_index, and the call returns
Observes(t) ==
    /\ Calls(t, "handle_incoming")
    /\ pc'[t] = "done"
    /\ IsSome(loc'[t].our_index)
    /\ Unwrap(loc'[t].our_index) \in DOMAIN sessions
    /\ IsSome(loc'[t].peer_index)

\* the session o tracks the peer index p in this step: an initiator ends with p in the
\* cache and, when the cache held another value, with PrevSessIndex(p) in the rewritten
\* block; a responder is unchanged
Tracks(o, p) ==
    IF IsSome(inners[o].initiator)
    THEN /\ Unwrap(inners'[o].initiator).peer_recv_index = p
         /\ IF Unwrap(inners[o].initiator).peer_recv_index /= p
            THEN /\ Unwrap(inners'[o].initiator).m.peer_recv_index = Some(p)
                 /\ HasEnt(Unwrap(inners'[o].initiator).m.additional_data, PrevSessIndex(p))
            ELSE inners'[o] = inners[o]
    ELSE inners'[o] = inners[o]

\* C19 (as stated): after a decapsulation with any outcome other than Err of a packet
\* whose framing carried peer_index p, an initiator's cache equals p and, if p differed
\* from the cached value, the block was rewritten to contain PrevSessIndex(p); a
\* responder is unchanged.
C19_TracksOnEveryOutcome ==
    [][\A t \in DOMAIN pc :
          (Observes(t) /\ loc'[t].tunn /= "Err")
          => Tracks(sessions[Unwrap(loc'[t].our_index)], Unwrap(loc'[t].peer_index))]_vars

\* C19 (amended): the peer index is tracked after a decapsulation whose outcome is Done
\* or WriteToNetwork; an outcome of Err or CustomData leaves the cache and the block
\* of every session as they were; a responder is unchanged by any of them.
C19_PeerIndexTracking ==
    [][\A t \in DOMAIN pc :
          Observes(t)
          => IF loc'[t].tunn \in {"Done", "WriteToNetwork"}
             THEN /\ Tracks(sessions[Unwrap(loc'[t].our_index)], Unwrap(loc'[t].peer_index))
                  /\ \A o \in DOMAIN inners :
                        o /= sessions[Unwrap(loc'[t].our_index)] => inners'[o] = inners[o]
             ELSE inners' = inners]_vars

\* C19 happens: the initiator at index 1 had recorded a peer index, and a packet with
\* another peer index was decapsulated to WriteToNetwork and recorded in its place
C19_Witness ==
    \E t \in DOMAIN pc :
        /\ pc[t] = "done"
        /\ loc[t].op = "handle_incoming"
        /\ loc[t].our_index = Some(1)
        /\ loc[t].peer_index = Some(2)
        /\ loc[t].tunn = "WriteToNetwork"
        /\ 1 \in DOMAIN sessions
        /\ IsSome(inners[sessions[1]].initiator)
        /\ Unwrap(inners[sessions[1]].initiator).peer_recv_index = 2
        /\ HasEnt(Unwrap(inners[sessions[1]].initiator).m.additional_data, PrevSessIndex(2))
        /\ HasKind(Unwrap(inners[sessions[1]].initiator).m.additional_data, "CjdnsPsk")

\* C20: the additional-data block of every initiator session has a length that is a
\* multiple of 4 and is the padded serialization of its state: a PrevSessIndex entry
\* iff a peer receive-index is recorded, a CjdnsPsk entry iff an authenticator is set,
\* and no bytes at all when neither is.
C20_AdditionalDataSerialized ==
    \A o \in DOMAIN inners :
        IsSome(inners[o].initiator)
        => LET m == Unwrap(inners[o].initiator).m
           IN /\ msg_len(m.additional_data) % 4 = 0
              /\ HasKind(m.additional_data, "PrevSessIndex") <=> IsSome(m.peer_recv_index)
              /\ IsSome(m.peer_recv_index)
                 => HasEnt(m.additional_data, PrevSessIndex(Unwrap(m.peer_recv_index)))
              /\ HasKind(m.additional_data, "CjdnsPsk") <=> IsSome(m.auth)
              /\ IsSome(m.auth) => HasEnt(m.additional_data, CjdnsPsk(Unwrap(m.auth)))
              /\ (~IsSome(m.peer_recv_index) /\ ~IsSome(m.auth)) => m.additional_data = <<>>
              /\ m.additional_data = update_additional(m).m.additional_data

\* C20 happens: an initiator holds a recorded peer index and no authenticator, and its
\* block is the entry with its padding
C20_Witness ==
    \E o \in DOMAIN inners :
        /\ IsSome(inners[o].initiator)
        /\ IsSome(Unwrap(inners[o].initiator).m.peer_recv_index)
        /\ ~IsSome(Unwrap(inners[o].initiator).m.auth)
        /\ HasKind(Unwrap(inners[o].initiator).m.additional_data, "Pad")
        /\ msg_len(Unwrap(inners[o].initiator).m.additional_data) = 8

\* C21: set_auth changes nothing on a responder session (tunnel key, registry, Auth
\* Table); on an initiator, once set_auth(password, login) has returned, the tunnel's
\* pre-shared key is the secret derived from (password, login) and the additional data
\* carries the matching CjdnsPsk challenge; after set_auth(None, _) the key is cleared
\* and the additional data carries no CjdnsPsk entry.
C21_SetAuthInitiatorOnly ==
    [][\A t \in DOMAIN pc :
          Calls(t, "set_auth")
          => LET o == loc'[t].inner
                 a == compute_auth(loc'[t].password, loc'[t].login)
             IN /\ pc'[t] = "done"
                /\ sessions' = sessions
                /\ users' = users
                /\ \A x \in DOMAIN inners : x /= o => inners'[x] = inners[x]
                /\ IF ~IsSome(inners[o].initiator) THEN inners'[o] = inners[o]
                   ELSE /\ inners'[o].tunnel.psk = a.secret
                        /\ IF IsSome(loc'[t].password)
                           THEN /\ IsSome(a.secret)
                                /\ HasEnt(Unwrap(inners'[o].initiator).m.additional_data,
                                          CjdnsPsk(Unwrap(a.challenge)))
                           ELSE /\ inners'[o].tunnel.psk = None
                                /\ ~HasKind(Unwrap(inners'[o].initiator).m.additional_data,
                                            "CjdnsPsk")]_vars

\* C21 happens: set_auth(None, _) has returned on an initiator that has a peer index
\* recorded, and its tunnel holds no pre-shared key
C21_Witness ==
    \E t \in DOMAIN pc :
        /\ pc[t] = "done"
        /\ loc[t].op = "set_auth"
        /\ loc[t].password = None
        /\ IsSome(inners[loc[t].inner].initiator)
        /\ IsSome(Unwrap(inners[loc[t].inner].initiator).m.peer_recv_index)
        /\ inners[loc[t].inner].tunnel.psk = None

\* the errors the responder path ends a handshake init with
InitErrors ==
    {"InvalidPacket", "StrayKey", "NoSession", "HandshakeDecryptFailed", "UnrecognizedAuth",
     "AuthRequired", "WrongPermPubkey", "IpRestricted"}

\* C22: a handshake init that the responder path ends with an error leaves the session
\* map exactly as it was before the packet: no session created during the failed
\* attempt stays registered.
C22_FailedInitLeavesRegistry ==
    [][\A t \in DOMAIN pc :
          (Started(t) /\ loc'[t].ret.err \in InitErrors) => sessions' = sessions]_vars

\* C23: once every update_peer_index call in progress has completed, the peer index
\* recorded under the lock of an initiator session is the value held in its atomic
\* cache.
C23_CacheMatchesRecorded ==
    (\A t \in DOMAIN pc : pc[t] /= "upi_write")
    => \A o \in DOMAIN inners :
          (/\ IsSome(inners[o].initiator)
           /\ Unwrap(inners[o].initiator).peer_recv_index /= USIZE_MAX)
          => Unwrap(inners[o].initiator).m.peer_recv_index
               = Some(Unwrap(inners[o].initiator).peer_recv_index)

\* the block add carries the challenge that set_auth installs together with the
\* pre-shared key psk (no CjdnsPsk entry together with no key)
Paired(psk, add) ==
    \E p \in SetAuthPasswords, l \in SetAuthLogins :
        /\ compute_auth(p, l).secret = psk
        /\ IF IsSome(compute_auth(p, l).challenge)
           THEN HasEnt(add, CjdnsPsk(Unwrap(compute_auth(p, l).challenge)))
           ELSE ~HasKind(add, "CjdnsPsk")

\* thread t calls the tunnel of an initiator in this step: encapsulate_add in
\* PlaintextRecv::recv, or update_timers_add in tick
CallsTunnel(t) ==
    /\ pc'[t] /= pc[t]
    /\ loc'[t].tunn /= "none"
    /\ loc'[t].op \in {"plaintext_recv", "tick"}
    /\ IsSome(inners[loc'[t].inner].initiator)

\* C24: every encapsulate_add and update_timers_add call on an initiator is given the
\* additional data installed by the set_auth call that installed the pre-shared key
\* the tunnel holds at the call.
C24_BlockMatchesKey ==
    [][\A t \in DOMAIN pc :
          CallsTunnel(t) => Paired(loc'[t].psk, Unwrap(loc'[t].add))]_vars

\* thread t is inside the loop of Session::new0
InNew0(t) == pc[t] \in {"new0_fetch", "new0_insert", "new0_drop"}

\* the call of thread t has returned the Session it registered at a free index
Created(t) ==
    /\ pc[t] = "done"
    /\ loc[t].ret.ok
    /\ IsSome(loc[t].ret.session)
    /\ loc[t].index \in DOMAIN sessions
    /\ sessions[loc[t].index] = Unwrap(loc[t].ret.session).inner

\* C25: a creation with a valid key terminates: the loop of Session::new0 eventually
\* inserts the session at a free index and returns it; a rejected key makes the call
\* return an error on the first iteration with the session map unchanged.
C25_CreationTerminates ==
    /\ \A t \in SeqThreads : InNew0(t) ~> Created(t)
    /\ [][\A t \in SeqThreads :
             (Calls(t, "Session_new") /\ ~Session_new1(loc'[t].her_pub_key, <<>>, TRUE, FALSE,
                                                       0, 0).ok)
             => (/\ pc'[t] = "done"
                 /\ ~loc'[t].ret.ok
                 /\ loc'[t].tries = 1
                 /\ sessions' = sessions)]_vars

\* C25 happens: a creation found the whole index space but one index occupied, was
\* retried more than once and has returned its Session
C25_Witness ==
    \E t \in SeqThreads :
        /\ Created(t)
        /\ loc[t].tries > 2
        /\ Cardinality(DOMAIN sessions) > 2

====
